---------------------------- MODULE Spec2Model ----------------------------
(***************************************************************************)
(* N-Queens by genetic algorithm: the three variants of the repository     *)
(* (binary, integer with repetition, permutation with elitism), their      *)
(* fitness functions, the DEAP operators they register and the             *)
(* generational loop that drives them.                                     *)
(*                                                                         *)
(* Python sequences are 0-based; a genome is kept as a TLA+ sequence, so   *)
(* Python's ind[k] is ind[k + 1] here.  Probabilities are kept in          *)
(* thousandths (0.9 is 900).  A fitness is the violation count; the        *)
(* library compares the weighted value, -1.0 * count.                      *)
(***************************************************************************)
EXTENDS Integers, Sequences, FiniteSets, TLC

VARIABLES
    cfg,         \* the arguments of the variant function being run
    pc,          \* position of the run
    population,  \* the list the loop works on: "population" and, from selection
                 \* until it replaces it (population[:] = offspring), "offspring"
    completed,   \* the last evaluation batch: the tasks in the order workers finished
    hof,         \* HallOfFame.items, best first
    logbook,     \* the Logbook's records
    gen,         \* the generation being computed
    firstBest,   \* history: the first individual seen with the lowest fitness so far
    previous,    \* the result returned by the previous run of the same configuration
    probe        \* a single call of a pure function: arguments and result

vars == <<cfg, pc, population, completed, hof, logbook, gen,
          firstBest, previous, probe>>

-----------------------------------------------------------------------------
(* Bounds of the model *)

MaxQueens == 3
MaxPopulation == 2
MaxGen == 2
MaxElite == 2
MaxPopulationSpace == 729
MaxDecodeQueens == 5
MaxBoardQueens == 5

(* Constants of the program *)

CROSSOVER_PROBABILITY == 900
MUTATION_PROBABILITY == 100
RANDOM_SEED == 1500
MIN_QUEENS_AMOUNT == 4

VARIANTS == {"binary", "integer", "optimized"}

-----------------------------------------------------------------------------
(* Arithmetic helpers *)

Abs(x) == IF x < 0 THEN -x ELSE x

Min(S) == CHOOSE x \in S : \A y \in S : x <= y

\* math.ceil(math.log2(n)) for n >= 1: the least w with 2^w >= n
CeilLog2(n) == CHOOSE w \in 0..n : 2^w >= n /\ \A u \in 0..(w-1) : 2^u < n

\* the row pairs (i, j), i < j, the fitness functions scan
RowPairs(queens_amount) ==
    {p \in (0..(queens_amount-1)) \X (0..(queens_amount-1)) : p[1] < p[2]}

-----------------------------------------------------------------------------
(* Fitness model *)

\* the while loop of get_value: <<v, e>> when it exits
RECURSIVE get_value_loop(_, _, _, _, _, _)
get_value_loop(ind, k, queens_amount, bits_amount, v, e) ==
    IF e < bits_amount /\ v < queens_amount
    THEN get_value_loop(ind, k, queens_amount, bits_amount,
                        v + ind[k + e + 1] * 2^e, e + 1)
    ELSE <<v, e>>

\* get_value without the final "undo one step"
get_value_no_undo(ind, pos, queens_amount, bits_amount) ==
    get_value_loop(ind, pos * bits_amount, queens_amount, bits_amount, 0, 0)[1]

get_value(ind, pos, queens_amount, bits_amount) ==
    LET k == pos * bits_amount
        r == get_value_loop(ind, k, queens_amount, bits_amount, 0, 0)
        v == r[1]
        e == r[2]
    IN  IF v >= queens_amount
        THEN v - ind[k + e - 1 + 1] * 2^(e - 1)
        ELSE v

get_violations_count_binary(ind, queens_amount, bits_amount) ==
    Cardinality({p \in RowPairs(queens_amount) :
        LET vi == get_value(ind, p[1], queens_amount, bits_amount)
            vj == get_value(ind, p[2], queens_amount, bits_amount)
        IN  vi = vj \/ Abs(p[1] - p[2]) = Abs(vi - vj)})

get_violations_count_integer(individual, queens_amount) ==
    Cardinality({p \in RowPairs(queens_amount) :
        \/ individual[p[1] + 1] = individual[p[2] + 1]
        \/ Abs(p[1] - p[2]) = Abs(individual[p[1] + 1] - individual[p[2] + 1])})

\* get_violations_count that sees one diagonal direction only
get_violations_count_one_diagonal(individual, queens_amount) ==
    Cardinality({p \in RowPairs(queens_amount) :
        p[1] - p[2] = individual[p[1] + 1] - individual[p[2] + 1]})

get_violations_count_optimized(individual, queens_amount) ==
    Cardinality({p \in RowPairs(queens_amount) :
        Abs(p[1] - p[2]) = Abs(individual[p[1] + 1] - individual[p[2] + 1])})

-----------------------------------------------------------------------------
(* Individuals *)

\* an individual whose fitness.values were deleted or never set
NoFitness == -1

Individual(genome, fitness) == [genome |-> genome, fitness |-> fitness]

Valid(ind) == ind.fitness # NoFitness

bits_amount_of(queens_amount) == CeilLog2(queens_amount)

PermutationsOf(n) ==
    {g \in [1..n -> 0..(n-1)] : \A i, j \in 1..n : i # j => g[i] # g[j]}

\* what individualCreator can return: zeroOrOne repeated bits_amount*queens_amount
\* times, random.choices(range(n), k=n), random.sample(range(n), n)
Genomes(variant, queens_amount) ==
    CASE variant = "binary" ->
            [1..(bits_amount_of(queens_amount) * queens_amount) -> {0, 1}]
      [] variant = "integer" -> [1..queens_amount -> 0..(queens_amount-1)]
      [] variant = "optimized" -> PermutationsOf(queens_amount)

\* toolbox.evaluate
Evaluate(variant, queens_amount, genome) ==
    CASE variant = "binary" ->
            get_violations_count_binary(genome, queens_amount,
                                        bits_amount_of(queens_amount))
      [] variant = "integer" -> get_violations_count_integer(genome, queens_amount)
      [] variant = "optimized" -> get_violations_count_optimized(genome, queens_amount)

\* the weighted value the library compares: weights = (-1.0,)
wvalue(fitness) == (-1) * fitness

\* Fitness.__gt__
FitnessGt(f1, f2) == wvalue(f1) > wvalue(f2)

\* Fitness.__le__
FitnessLe(f1, f2) == wvalue(f1) <= wvalue(f2)

-----------------------------------------------------------------------------
(* Randomness *)

\* random.random() lies in [0, 1): its extremes, in thousandths
RandomUnit == {0, 999}

\* the outcomes of "random.random() < p"
Chance(p) == {r < p : r \in RandomUnit}

\* the result of an operator that may raise
Ok(v) == [ok |-> TRUE, val |-> v]
Raised == [ok |-> FALSE, val |-> <<>>]

-----------------------------------------------------------------------------
(* Genetic operators *)

\* max(aspirants, key=fitness) of two aspirants: the first one on a tie
Tournament(a, b) == IF FitnessGt(b.fitness, a.fitness) THEN b ELSE a

\* the individuals one tournament of size 2 can return
TournamentWinners(individuals) ==
    {Tournament(individuals[a], individuals[b]) :
        a \in 1..Len(individuals), b \in 1..Len(individuals)}

\* selTournament that returns one individual too few
selTournamentShort(individuals, k) ==
    [1..(k - 1) -> TournamentWinners(individuals)]

\* selTournament(individuals, k, tournsize=2): the possible results
selTournament(individuals, k) ==
    [1..k -> TournamentWinners(individuals)]

\* cxOnePoint: cxpoint = random.randint(1, size - 1) raises on an empty range
cxOnePoint(ind1, ind2) ==
    LET size == IF Len(ind1) < Len(ind2) THEN Len(ind1) ELSE Len(ind2)
    IN  IF size - 1 < 1
        THEN {Raised}
        ELSE {Ok(<<SubSeq(ind1, 1, cxpoint) \o SubSeq(ind2, cxpoint + 1, Len(ind2)),
                   SubSeq(ind2, 1, cxpoint) \o SubSeq(ind1, cxpoint + 1, Len(ind1))>>) :
                cxpoint \in 1..(size - 1)}

\* the loop body without the repair: the two values are only exchanged
PlainSwap(s, i) ==
    [s EXCEPT !.ind1[i + 1] = s.ind2[i + 1], !.ind2[i + 1] = s.ind1[i + 1]]

\* one pass of the loop body of cxUniformPartialyMatched at position i (0-based)
PMXSwap(s, i) ==
    LET temp1 == s.ind1[i + 1]
        temp2 == s.ind2[i + 1]
    IN  [ind1 |-> [s.ind1 EXCEPT ![i + 1] = temp2, ![s.p1[temp2] + 1] = temp1],
         ind2 |-> [s.ind2 EXCEPT ![i + 1] = temp1, ![s.p2[temp1] + 1] = temp2],
         p1 |-> [s.p1 EXCEPT ![temp1] = s.p1[temp2], ![temp2] = s.p1[temp1]],
         p2 |-> [s.p2 EXCEPT ![temp1] = s.p2[temp2], ![temp2] = s.p2[temp1]]]

\* p[ind[i]] = i for i in range(size), over p = [0] * size: the last position
\* holding v, or 0
PositionOf(ind, v, size) ==
    LET at == {i \in 0..(size-1) : ind[i + 1] = v}
    IN  IF at = {} THEN 0 ELSE CHOOSE i \in at : \A j \in at : j <= i

RECURSIVE PMXLoop(_, _, _, _)
PMXLoop(s, i, size, indpb) ==
    IF i >= size
    THEN {<<s.ind1, s.ind2>>}
    ELSE UNION {PMXLoop(IF swap THEN PMXSwap(s, i) ELSE s, i + 1, size, indpb) :
                    swap \in Chance(indpb)}

\* cxUniformPartialyMatched(ind1, ind2, indpb)
cxUniformPartialyMatched(ind1, ind2, indpb) ==
    LET size == IF Len(ind1) < Len(ind2) THEN Len(ind1) ELSE Len(ind2)
        p1 == [v \in 0..(size-1) |-> PositionOf(ind1, v, size)]
        p2 == [v \in 0..(size-1) |-> PositionOf(ind2, v, size)]
    IN  {Ok(c) : c \in PMXLoop([ind1 |-> ind1, ind2 |-> ind2, p1 |-> p1, p2 |-> p2],
                               0, size, indpb)}

RECURSIVE mutFlipBitLoop(_, _, _)
mutFlipBitLoop(individual, i, indpb) ==
    IF i >= Len(individual)
    THEN {individual}
    ELSE UNION {mutFlipBitLoop(IF flip
                               THEN [individual EXCEPT ![i + 1] = 1 - individual[i + 1]]
                               ELSE individual, i + 1, indpb) :
                    flip \in Chance(indpb)}

\* mutFlipBit(individual, indpb)
mutFlipBit(individual, indpb) == {Ok(g) : g \in mutFlipBitLoop(individual, 0, indpb)}

RECURSIVE mutUniformIntLoop(_, _, _, _, _)
mutUniformIntLoop(individual, i, low, up, indpb) ==
    IF i >= Len(individual)
    THEN {individual}
    ELSE UNION {IF reset
                THEN UNION {mutUniformIntLoop([individual EXCEPT ![i + 1] = x],
                                              i + 1, low, up, indpb) : x \in low..up}
                ELSE mutUniformIntLoop(individual, i + 1, low, up, indpb) :
                    reset \in Chance(indpb)}

\* mutUniformInt(individual, low, up, indpb)
mutUniformInt(individual, low, up, indpb) ==
    {Ok(g) : g \in mutUniformIntLoop(individual, 0, low, up, indpb)}

\* the position mutShuffleIndexes swaps position i with, drawn as r in 0..size-2
SwapIndex(r, i) == IF r >= i THEN r + 1 ELSE r

RECURSIVE mutShuffleIndexesLoop(_, _, _)
mutShuffleIndexesLoop(individual, i, indpb) ==
    LET size == Len(individual)
    IN  IF i >= size
        THEN {Ok(individual)}
        ELSE UNION {IF ~swap
                    THEN mutShuffleIndexesLoop(individual, i + 1, indpb)
                    ELSE IF size - 2 < 0
                    THEN {Raised}
                    ELSE UNION {mutShuffleIndexesLoop(
                                    [individual EXCEPT
                                        ![i + 1] = individual[SwapIndex(r, i) + 1],
                                        ![SwapIndex(r, i) + 1] = individual[i + 1]],
                                    i + 1, indpb) : r \in 0..(size - 2)} :
                        swap \in Chance(indpb)}

\* mutShuffleIndexes(individual, indpb): swap_indx = random.randint(0, size - 2)
\* raises on an empty range
mutShuffleIndexes(individual, indpb) == mutShuffleIndexesLoop(individual, 0, indpb)

\* toolbox.mate as each variant registers it
Mate(variant, queens_amount, ind1, ind2) ==
    IF variant = "optimized"
    THEN cxUniformPartialyMatched(ind1, ind2, 2000 \div queens_amount)
    ELSE cxOnePoint(ind1, ind2)

\* toolbox.mutate as each variant registers it
Mutate(variant, queens_amount, individual) ==
    CASE variant = "binary" -> mutFlipBit(individual, 1000 \div queens_amount)
      [] variant = "integer" ->
            mutUniformInt(individual, 0, queens_amount - 1, 1000 \div queens_amount)
      [] variant = "optimized" ->
            mutShuffleIndexes(individual, 1000 \div queens_amount)

-----------------------------------------------------------------------------
(* Hall of fame *)

\* HallOfFame(maxsize) as each variant constructs it
HofMaxSize(variant) == IF variant = "optimized" THEN MaxElite ELSE 1

\* HallOfFame.keys: the fitnesses of the items, worst first
HofKeys(items) == [i \in 1..Len(items) |-> items[Len(items) + 1 - i].fitness]

\* bisect_right(keys, x) on keys sorted by Fitness order
bisect_right(keys, x) == Cardinality({i \in 1..Len(keys) : FitnessLe(keys[i], x)})

InsertAt(seq, at, x) == SubSeq(seq, 1, at) \o <<x>> \o SubSeq(seq, at + 1, Len(seq))

\* HallOfFame.insert: items.insert(len(self) - i, item), 0-based
HofInsert(items, item) ==
    InsertAt(items, Len(items) - bisect_right(HofKeys(items), item.fitness), item)

\* HallOfFame.remove(-1)
HofRemoveLast(items) == SubSeq(items, 1, Len(items) - 1)

\* "similar" is operator.eq on the arrays: the genomes are equal
Similar(a, b) == a.genome = b.genome

\* the body of HallOfFame.update's loop for one individual
HofUpdateOne(items, ind, first, maxsize) ==
    IF Len(items) = 0 /\ maxsize # 0
    THEN HofInsert(items, first)
    ELSE IF FitnessGt(ind.fitness, items[Len(items)].fitness) \/ Len(items) < maxsize
    THEN IF \E h \in 1..Len(items) : Similar(ind, items[h])
         THEN items
         ELSE HofInsert(IF Len(items) >= maxsize THEN HofRemoveLast(items) ELSE items,
                        ind)
    ELSE items

RECURSIVE HofUpdateLoop(_, _, _, _)
HofUpdateLoop(items, pop, i, maxsize) ==
    IF i > Len(pop)
    THEN items
    ELSE HofUpdateLoop(HofUpdateOne(items, pop[i], pop[1], maxsize), pop, i + 1, maxsize)

\* an update that admits an individual no better than the worst member
RECURSIVE HofUpdateTiesLoop(_, _, _, _)
HofUpdateTiesLoop(items, pop, i, maxsize) ==
    IF i > Len(pop)
    THEN items
    ELSE HofUpdateTiesLoop(
            IF Len(items) = 0 THEN <<pop[1]>>
            ELSE IF \E h \in 1..Len(items) : Similar(pop[i], items[h]) THEN items
            ELSE IF FitnessLe(items[Len(items)].fitness, pop[i].fitness)
                    \/ Len(items) < maxsize
            THEN HofInsert(IF Len(items) >= maxsize THEN HofRemoveLast(items) ELSE items,
                           pop[i])
            ELSE items,
            pop, i + 1, maxsize)

HofUpdateTies(items, pop, maxsize) == HofUpdateTiesLoop(items, pop, 1, maxsize)

\* an update that only fills an empty hall of fame
HofUpdateFrozen(items, pop, maxsize) ==
    IF Len(items) = 0 THEN <<pop[1]>> ELSE items

\* HallOfFame.update(population)
HofUpdate(items, pop, maxsize) == HofUpdateLoop(items, pop, 1, maxsize)

-----------------------------------------------------------------------------
(* Statistics *)

\* stats.compile: numpy.min over the fitness values
StatsMin(pop) == Min({pop[i].fitness : i \in 1..Len(pop)})

\* logbook.record(gen=..., min=...)
Record(g, pop) == [gen |-> g, min |-> StatsMin(pop)]

\* history: the first individual, in the order the population is scanned, that
\* beats every one seen before
RECURSIVE FirstBestLoop(_, _, _)
FirstBestLoop(fb, pop, i) ==
    IF i > Len(pop)
    THEN fb
    ELSE FirstBestLoop(IF fb = <<>> THEN <<pop[i]>>
                       ELSE IF pop[i].fitness < fb[1].fitness THEN <<pop[i]>>
                       ELSE fb,
                       pop, i + 1)

-----------------------------------------------------------------------------
(* Configurations *)

GenomeCount(variant, queens_amount) == Cardinality(Genomes(variant, queens_amount))

Largest(S) == IF S = {} THEN {} ELSE {CHOOSE x \in S : \A y \in S : y <= x}

\* the largest population size within the bounds for a genome space
PopulationSizeFor(variant, queens_amount) ==
    Largest({p \in 1..MaxPopulation :
                GenomeCount(variant, queens_amount)^p <= MaxPopulationSpace})

\* no generation, and the largest number of generations within the bounds
GenerationsFor(variant, queens_amount, population_size) ==
    {0} \cup Largest({g \in 1..MaxGen :
                GenomeCount(variant, queens_amount)^population_size * g
                    <= MaxPopulationSpace})

Config(variant, queens_amount, population_size, cxpb, mutpb, ngen) ==
    [variant |-> variant, queens_amount |-> queens_amount,
     population_size |-> population_size, cxpb |-> cxpb, mutpb |-> mutpb,
     ngen |-> ngen, random_seed |-> RANDOM_SEED]

\* the configuration the interface declares valid
ValidConfig(c) ==
    /\ c.queens_amount >= 1
    /\ c.population_size >= 1
    /\ c.cxpb \in 0..1000
    /\ c.mutpb \in 0..1000
    /\ c.ngen >= 0
    /\ HofMaxSize(c.variant) <= c.population_size

\* the runs main() makes, scaled to the bounds
Configurations ==
    {c \in UNION {UNION {{Config(v, n, p, CROSSOVER_PROBABILITY,
                                 MUTATION_PROBABILITY, g) :
                             g \in GenerationsFor(v, n, p)} :
                         p \in PopulationSizeFor(v, n)} :
                  v \in VARIANTS, n \in 1..MaxQueens} :
        ValidConfig(c)}

\* arguments outside the declared ranges
InvalidConfigurations ==
    {Config(v, 0, MaxPopulation, CROSSOVER_PROBABILITY, MUTATION_PROBABILITY, 1) :
        v \in VARIANTS}
    \cup {Config(v, 2, MaxPopulation, 1500, MUTATION_PROBABILITY, 1) : v \in VARIANTS}
    \cup {Config(v, 2, MaxPopulation, CROSSOVER_PROBABILITY, -100, 1) : v \in VARIANTS}

\* a small configuration, run twice
RepeatConfigurations ==
    {Config("optimized", MaxQueens, MaxElite, CROSSOVER_PROBABILITY,
            MUTATION_PROBABILITY, 1)}

-----------------------------------------------------------------------------
(* The run *)

NoRun == [logbook |-> <<>>, best |-> <<>>]
NoProbe == [fn |-> "none"]

EngineInit(configs) ==
    /\ cfg \in configs
    /\ pc = "start"
    /\ population = <<>>
    /\ completed = <<>>
    /\ hof = <<>>
    /\ logbook = <<>>
    /\ gen = 0
    /\ firstBest = <<>>
    /\ previous = NoRun

Init == EngineInit(Configurations) /\ probe = NoProbe

\* what raises while the operators are registered: math.log2 of a non-positive
\* number, 1.0/queens_amount and 2.0/queens_amount of zero
RegistrationRaises(c) ==
    CASE c.variant = "binary" -> c.queens_amount <= 0
      [] OTHER -> c.queens_amount = 0

\* from the toolbox registrations to toolbox.populationCreator(n=population_size)
Construct ==
    /\ pc = "start"
    /\ IF RegistrationRaises(cfg)
       THEN pc' = "raised" /\ UNCHANGED population
       ELSE /\ \E genomes \in [1..cfg.population_size ->
                                  Genomes(cfg.variant, cfg.queens_amount)] :
                 population' = [i \in 1..cfg.population_size |->
                                   Individual(genomes[i], NoFitness)]
            /\ pc' = "evaluate"
    /\ UNCHANGED <<cfg, completed, hof, logbook, gen, firstBest,
                   previous, probe>>

RECURSIVE InvalidIndLoop(_, _)
InvalidIndLoop(batch, i) ==
    IF i > Len(batch) THEN <<>>
    ELSE (IF Valid(batch[i]) THEN <<>> ELSE <<i>>) \o InvalidIndLoop(batch, i + 1)

\* invalid_ind = [ind for ind in population if not ind.fitness.valid], as positions
InvalidInd(batch) == InvalidIndLoop(batch, 1)

\* a pool worker finishes one task of toolbox.map(toolbox.evaluate, invalid_ind)
Worker ==
    /\ pc = "evaluate"
    /\ \E t \in 1..Len(InvalidInd(population)) :
        /\ \A k \in 1..Len(completed) : completed[k].task # t
        /\ completed' = Append(completed,
              [task |-> t,
               fit |-> Evaluate(cfg.variant, cfg.queens_amount,
                                population[InvalidInd(population)[t]].genome)])
    /\ UNCHANGED <<cfg, pc, population, hof, logbook, gen, firstBest,
                   previous, probe>>

\* results handed back in the order the workers finished
MapUnordered(done, n) == [t \in 1..n |-> done[t].fit]

\* pool.map: the results in the order of the tasks
PoolMap(done, n) ==
    [t \in 1..n |-> done[CHOOSE k \in 1..Len(done) : done[k].task = t].fit]

\* for ind, fit in zip(invalid_ind, fitnesses): ind.fitness.values = fit
WriteBack(batch, fitnesses) ==
    LET invalid_ind == InvalidInd(batch)
    IN  [i \in 1..Len(batch) |->
            IF Valid(batch[i])
            THEN batch[i]
            ELSE Individual(batch[i].genome,
                    fitnesses[CHOOSE t \in 1..Len(invalid_ind) : invalid_ind[t] = i])]

\* the elements of seq at the positions in keep, in order
SubsequenceAt(seq, keep) ==
    LET n == Cardinality(keep)
        at == CHOOSE f \in [1..n -> keep] : \A a, b \in 1..n : a < b => f[a] < f[b]
    IN  [k \in 1..n |-> seq[at[k]]]

\* elitism: the worst individuals of the varied population give way to the
\* members of the elite set, one for one
Elect(varied, elites) ==
    LET m == Len(elites)
        idx == 1..Len(varied)
    IN  {SubsequenceAt(varied, idx \ worst) \o elites :
            worst \in {w \in SUBSET idx :
                          /\ Cardinality(w) = m
                          /\ \A i \in w, j \in idx \ w :
                                varied[j].fitness <= varied[i].fitness}}

\* the evaluated batch becomes the population; hall of fame and logbook follow
Collect ==
    /\ pc = "evaluate"
    /\ Len(completed) = Len(InvalidInd(population))
    /\ LET evaluated == WriteBack(population, PoolMap(completed, Len(completed)))
       IN  \E newpop \in IF cfg.variant = "optimized" /\ gen > 0
                         THEN Elect(evaluated, hof)
                         ELSE {evaluated} :
            /\ population' = newpop
            /\ hof' = HofUpdate(hof, newpop, HofMaxSize(cfg.variant))
            /\ firstBest' = FirstBestLoop(firstBest, newpop, 1)
            /\ logbook' = Append(logbook, Record(gen, newpop))
    /\ IF gen < cfg.ngen
       THEN gen' = gen + 1 /\ pc' = "select"
       ELSE gen' = gen /\ pc' = "done"
    /\ UNCHANGED <<cfg, completed, previous, probe>>

\* offspring = toolbox.select(population, len(population))
Select ==
    /\ pc = "select"
    /\ \E chosen \in selTournament(population, Len(population)) :
            population' = chosen
    /\ completed' = <<>>
    /\ pc' = "mate"
    /\ UNCHANGED <<cfg, hof, logbook, gen, firstBest,
                   previous, probe>>

\* varAnd's first loop, from Python position i: for i in range(1, len(offspring), 2)
RECURSIVE VarAndMateLoop(_, _)
VarAndMateLoop(off, i) ==
    IF i >= Len(off)
    THEN {Ok(off)}
    ELSE UNION {IF ~cross
                THEN VarAndMateLoop(off, i + 2)
                ELSE UNION {IF ~kids.ok
                            THEN {Raised}
                            ELSE VarAndMateLoop(
                                    [off EXCEPT
                                        ![i] = Individual(kids.val[1], NoFitness),
                                        ![i + 1] = Individual(kids.val[2], NoFitness)],
                                    i + 2) :
                                kids \in Mate(cfg.variant, cfg.queens_amount,
                                              off[i].genome, off[i + 1].genome)} :
                    cross \in Chance(cfg.cxpb)}

\* varAnd's second loop: for i in range(len(offspring))
RECURSIVE VarAndMutateLoop(_, _)
VarAndMutateLoop(off, i) ==
    IF i > Len(off)
    THEN {Ok(off)}
    ELSE UNION {IF ~mutate
                THEN VarAndMutateLoop(off, i + 1)
                ELSE UNION {IF ~mutant.ok
                            THEN {Raised}
                            ELSE VarAndMutateLoop(
                                    [off EXCEPT ![i] = Individual(mutant.val, NoFitness)],
                                    i + 1) :
                                mutant \in Mutate(cfg.variant, cfg.queens_amount,
                                                  off[i].genome)} :
                    mutate \in Chance(cfg.mutpb)}

\* varAnd: crossover of the adjacent pairs
VarAndMate ==
    /\ pc = "mate"
    /\ \E out \in VarAndMateLoop(population, 1) :
        IF out.ok
        THEN population' = out.val /\ pc' = "mutate"
        ELSE population' = population /\ pc' = "raised"
    /\ UNCHANGED <<cfg, completed, hof, logbook, gen, firstBest,
                   previous, probe>>

\* varAnd: mutation of each individual
VarAndMutate ==
    /\ pc = "mutate"
    /\ \E out \in VarAndMutateLoop(population, 1) :
        IF out.ok
        THEN population' = out.val /\ pc' = "evaluate"
        ELSE population' = population /\ pc' = "raised"
    /\ UNCHANGED <<cfg, completed, hof, logbook, gen, firstBest,
                   previous, probe>>

\* what the variant function returns: population, hof.items[0], logbook
Result == [logbook |-> logbook, best |-> <<hof[1]>>]

\* the same configuration is run again; nothing seeds the generator in between
Rerun ==
    /\ pc = "done"
    /\ previous = NoRun
    /\ previous' = Result
    /\ pc' = "start"
    /\ population' = <<>>
    /\ completed' = <<>>
    /\ hof' = <<>>
    /\ logbook' = <<>>
    /\ gen' = 0
    /\ firstBest' = <<>>
    /\ UNCHANGED <<cfg, probe>>

Next ==
    \/ Construct
    \/ Worker
    \/ Collect
    \/ Select
    \/ VarAndMate
    \/ VarAndMutate

Spec == Init /\ [][Next]_vars

\* runs with arguments outside the declared ranges
InitInvalid == EngineInit(InvalidConfigurations) /\ probe = NoProbe

SpecInvalid == InitInvalid /\ [][Next]_vars

\* two runs of one configuration in a row
InitRepeat == EngineInit(RepeatConfigurations) /\ probe = NoProbe

NextRepeat == Next \/ Rerun

SpecRepeat == InitRepeat /\ [][NextRepeat]_vars

-----------------------------------------------------------------------------
(* Single calls of the pure functions *)

NoConfig == Config("none", 0, 0, 0, 0, 0)

\* no run is in progress
EngineIdle ==
    /\ cfg = NoConfig
    /\ pc = "idle"
    /\ population = <<>>
    /\ completed = <<>>
    /\ hof = <<>>
    /\ logbook = <<>>
    /\ gen = 0
    /\ firstBest = <<>>
    /\ previous = NoRun

\* a binary individual and a row to decode
InitDecode ==
    /\ EngineIdle
    /\ \E n \in 1..MaxDecodeQueens :
        \E ind \in Genomes("binary", n), pos \in 0..(n - 1) :
            probe = [fn |-> "get_value", queens_amount |-> n, individual |-> ind,
                     pos |-> pos, called |-> FALSE, value |-> 0]

CallGetValue ==
    /\ probe.fn = "get_value"
    /\ ~probe.called
    /\ probe' = [probe EXCEPT
                    !.called = TRUE,
                    !.value = get_value(probe.individual, probe.pos,
                                        probe.queens_amount,
                                        bits_amount_of(probe.queens_amount))]
    /\ UNCHANGED <<cfg, pc, population, completed, hof, logbook, gen, firstBest,
                   previous>>

SpecDecode == InitDecode /\ [][CallGetValue]_vars

\* a permutation individual of the optimized variant
InitBoard ==
    /\ EngineIdle
    /\ \E n \in MIN_QUEENS_AMOUNT..MaxBoardQueens :
        \E ind \in Genomes("optimized", n) :
            probe = [fn |-> "get_violations_count", queens_amount |-> n,
                     individual |-> ind, pos |-> 0, called |-> FALSE, value |-> 0]

CallGetViolationsCount ==
    /\ probe.fn = "get_violations_count"
    /\ ~probe.called
    /\ probe' = [probe EXCEPT
                    !.called = TRUE,
                    !.value = get_violations_count_optimized(probe.individual,
                                                             probe.queens_amount)]
    /\ UNCHANGED <<cfg, pc, population, completed, hof, logbook, gen, firstBest,
                   previous>>

SpecBoard == InitBoard /\ [][CallGetViolationsCount]_vars

-----------------------------------------------------------------------------
(* Claims *)

IsPermutation(genome, n) ==
    /\ Len(genome) = n
    /\ {genome[i] : i \in 1..Len(genome)} = 0..(n - 1)

\* the base-2 value of the first k bits of a row's group, low-order bit first
RECURSIVE PrefixValue(_, _, _)
PrefixValue(ind, first, k) ==
    IF k = 0 THEN 0
    ELSE PrefixValue(ind, first, k - 1) + ind[first + k] * 2^(k - 1)

\* the number of low-order terms summed before the running sum reaches n
TermsKept(ind, first, w, n) ==
    LET over == {k \in 1..w : PrefixValue(ind, first, k) >= n}
    IN  IF over = {} THEN w ELSE Min(over) - 1

\* C2: get_value returns the sum of the low-order terms of the row's group up to,
\* and without, the first term that makes the running sum reach or exceed N; so
\* it is the group's base-2 value when that is below N, and always in 0..N-1.
C2_GetValueClamped ==
    (probe.fn = "get_value" /\ probe.called) =>
        LET n == probe.queens_amount
            w == bits_amount_of(n)
            first == probe.pos * w
            plain == PrefixValue(probe.individual, first, w)
        IN  /\ probe.value \in 0..(n - 1)
            /\ probe.value = PrefixValue(probe.individual, first,
                                         TermsKept(probe.individual, first, w, n))
            /\ plain < n => probe.value = plain

\* a call whose group's base-2 value is out of range, so that a term was dropped
C2_Witness ==
    /\ probe.fn = "get_value"
    /\ probe.called
    /\ probe.pos > 0
    /\ PrefixValue(probe.individual, probe.pos * bits_amount_of(probe.queens_amount),
                   bits_amount_of(probe.queens_amount)) >= probe.queens_amount
    /\ probe.value > 0

\* no two queens share a column or a diagonal
ValidSolution(individual, n) ==
    \A i, j \in 0..(n - 1) :
        i < j => /\ individual[i + 1] # individual[j + 1]
                 /\ Abs(i - j) # Abs(individual[i + 1] - individual[j + 1])

\* C3: for N >= 4 and a permutation genome the optimized variant's
\* get_violations_count lies in 0..N(N-1)/2 and is 0 exactly for the valid
\* N-Queens solutions.
C3_ViolationsRangeAndZero ==
    (probe.fn = "get_violations_count" /\ probe.called) =>
        LET n == probe.queens_amount
        IN  /\ probe.value \in 0..((n * (n - 1)) \div 2)
            /\ (probe.value = 0) <=> ValidSolution(probe.individual, n)

\* a solution was evaluated
C3_Witness ==
    /\ probe.fn = "get_violations_count"
    /\ probe.called
    /\ probe.value = 0
    /\ ValidSolution(probe.individual, probe.queens_amount)

Running == {"evaluate", "select", "mate", "mutate"}

LogbookMins == {logbook[i].min : i \in 1..Len(logbook)}

\* C1: in the optimized variant the per-generation minimum fitness recorded in
\* the logbook never increases from one generation to the next.
C1_MinNonIncreasing ==
    cfg.variant = "optimized" =>
        \A g \in 2..Len(logbook) : logbook[g].min <= logbook[g - 1].min

\* a generation whose population holds an individual worse than the previous
\* generation's minimum has been recorded
C1_Witness ==
    /\ cfg.variant = "optimized"
    /\ pc = "done"
    /\ Len(logbook) = MaxGen + 1
    /\ \E i \in 1..Len(population) :
            population[i].fitness > logbook[Len(logbook) - 1].min
    /\ logbook[Len(logbook)].min < logbook[1].min

\* C4: in the optimized variant every genome of the population is a permutation
\* of 0..N-1 at every point of a run.
C4_PermutationsPreserved ==
    cfg.variant = "optimized" =>
        \A i \in 1..Len(population) :
            IsPermutation(population[i].genome, cfg.queens_amount)

\* crossover and mutation have produced the offspring under evaluation
C4_Witness ==
    /\ cfg.variant = "optimized"
    /\ cfg.queens_amount = MaxQueens
    /\ pc = "evaluate"
    /\ gen = MaxGen
    /\ \A i \in 1..Len(population) : ~Valid(population[i])
    /\ population[1].genome # population[2].genome

\* C5: once created, the population holds exactly population_size individuals
\* through every generation, in all three variants.
C5_PopulationSizeFixed ==
    pc \in Running \cup {"done"} => Len(population) = cfg.population_size

\* the elite set of the optimized variant held fewer than K members when it was
\* merged into the last generation, and holds K now
C5_Witness ==
    /\ cfg.variant = "optimized"
    /\ pc = "done"
    /\ gen = MaxGen
    /\ Len(hof) = MaxElite
    /\ population[Len(population)] # hof[Len(hof)]
    /\ Len(population) = cfg.population_size

\* C6: every run terminates after ngen generations with a logbook of ngen + 1
\* records numbered 0..ngen.
C6_RunsToCompletion ==
    /\ pc # "raised"
    /\ pc = "done" =>
        /\ gen = cfg.ngen
        /\ Len(logbook) = cfg.ngen + 1
        /\ \A i \in 1..Len(logbook) : logbook[i].gen = i - 1

\* C7 as stated: the best genome returned has the lowest fitness of the whole
\* run and is the first genome found with that fitness, in all three variants.
C7_BestIsFirstFound ==
    pc = "done" =>
        /\ hof[1].fitness = Min(LogbookMins)
        /\ hof[1].genome = firstBest[1].genome

\* C7 as amended: the best genome returned has the lowest fitness of the whole
\* run in all three variants; in the two simple variants (hall of fame of size 1)
\* it is the first genome found with that fitness.
C7_BestIsLowest ==
    pc = "done" =>
        /\ hof[1].fitness = Min(LogbookMins)
        /\ cfg.variant # "optimized" => hof[1].genome = firstBest[1].genome

\* a simple variant ended with a population that lost the best genome of the run
C7_Witness ==
    /\ cfg.variant = "integer"
    /\ pc = "done"
    /\ gen >= 1
    /\ StatsMin(population) > hof[1].fitness
    /\ hof[1].genome = firstBest[1].genome

\* C8: a second run of the same configuration, the same random_seed included,
\* returns the logbook and the best genome of the first.
C8_RepeatedRunsAgree ==
    (pc = "done" /\ previous # NoRun) => Result = previous

\* C9: a run whose configuration is invalid never gets past construction and
\* never creates a population.
C9_InvalidConfigRejected ==
    ~ValidConfig(cfg) => (pc \in {"start", "raised"} /\ population = <<>>)

\* C10: when selection starts and at termination every individual's cached
\* fitness is valid and is the violation count of its own genome.
C10_CachedFitnessCurrent ==
    pc \in {"select", "done"} =>
        \A i \in 1..Len(population) :
            /\ Valid(population[i])
            /\ population[i].fitness =
                    Evaluate(cfg.variant, cfg.queens_amount, population[i].genome)

\* selection starts after a batch of two changed offspring whose second task
\* finished first, with a different result
C10_Witness ==
    /\ pc = "select"
    /\ gen = MaxGen
    /\ Len(completed) = 2
    /\ completed[1].task = 2
    /\ completed[1].fit # completed[2].fit

=============================================================================
